---------------------------- MODULE Spec2Model ----------------------------
(***************************************************************************)
(* Smart olive irrigation backend (Flask).  The repository carries several *)
(* drifted copies of one engine:                                           *)
(*   "mock"    src/main_mock_data.py   (version 1.1-fixed)                 *)
(*   "main"    src/main.py             (version 1.0)                       *)
(*   "live"    src/main_live_data.py   (command-line variant)              *)
(*   "service" src/kc_service.py, src/savings_service.py,                  *)
(*             src/et0_service.py      (micro-services)                    *)
(*                                                                         *)
(* Numbers.  Python floats are modelled as decimal fixed point: a real x   *)
(* is the integer x * S with S = 1000, except where a comment gives        *)
(* another unit.  Binary rounding noise of IEEE doubles (0.65 + 0.05 =     *)
(* 0.7000000000000001) is below that resolution and is not modelled,       *)
(* except where round() makes it visible: the saved cost at a decimal tie  *)
(* (see LitrePriceSide).                                                   *)
(* A Python exception is an outcome [ok |-> FALSE, err |-> <name>].        *)
(***************************************************************************)
EXTENDS Integers, Sequences, FiniteSets, TLC

VARIABLES
    DEMO_FARMS,   \* the process-wide farm registry (module global)
    call,         \* the operation being served, with its inputs
    result        \* what that operation returned

vars == <<DEMO_FARMS, call, result>>

---------------------------------------------------------------------------
(* Fixed-point helpers.                                                    *)

\* the fixed-point scale: three decimal digits
S == 10 * 10 * 10

Abs(x) == IF x < 0 THEN -x ELSE x

Max(a, b) == IF a >= b THEN a ELSE b

Min(a, b) == IF a <= b THEN a ELSE b

RECURSIVE Pow10(_)
Pow10(n) == IF n = 0 THEN 1 ELSE 10 * Pow10(n - 1)

\* the first n decimal digits of r / b (0 <= r < b), as an integer:
\* schoolbook long division, so that no intermediate exceeds 10 * b
RECURSIVE Digits(_, _, _)
Digits(r, b, n) ==
    IF n = 0 THEN 0
    ELSE ((r * 10) \div b) * Pow10(n - 1) + Digits((r * 10) % b, b, n - 1)

\* a / b for a >= 0, b > 0, as a value scaled by S (truncated)
QuoNat(a, b) == (a \div b) * S + Digits(a % b, b, 3)

\* x / d for a whole divisor d > 0, truncated towards zero
DivT(x, d) == IF x < 0 THEN -((-x) \div d) ELSE x \div d

\* Python's a / b on floats (b # 0), result scaled by S, truncated.
Quo(a, b) ==
    IF (a < 0) = (b < 0) THEN QuoNat(Abs(a), Abs(b)) ELSE -QuoNat(Abs(a), Abs(b))

\* (a / b) * 100 for a, b on one scale (b # 0), result scaled by S
PercentNat(a, b) == (a \div b) * 100 * S + Digits(a % b, b, 5)

Percent(a, b) ==
    IF (a < 0) = (b < 0) THEN PercentNat(Abs(a), Abs(b)) ELSE -PercentNat(Abs(a), Abs(b))

\* x * y for two values scaled by S, result scaled by S (truncated); the
\* larger factor is split so that no intermediate leaves 32 bits.
MulNat(a, b) == (a \div S) * b + ((a % S) * b) \div S

Mul(x, y) ==
    IF (x < 0) = (y < 0)
    THEN MulNat(Max(Abs(x), Abs(y)), Min(Abs(x), Abs(y)))
    ELSE -MulNat(Max(Abs(x), Abs(y)), Min(Abs(x), Abs(y)))

\* Python's round(x, nd) for nd in {0, 1, 2, 3} on a value scaled by S:
\* to the nearest multiple of 10^(3-nd), ties to the even neighbour.
RoundNat(a, unit) ==
    IF 2 * (a % unit) > unit \/ (2 * (a % unit) = unit /\ (a \div unit) % 2 = 1)
    THEN (a \div unit) * unit + unit
    ELSE (a \div unit) * unit

RoundTo(x, unit) == IF x < 0 THEN -RoundNat(-x, unit) ELSE RoundNat(x, unit)

round(x, nd) ==
    CASE nd = 3 -> x
      [] nd = 2 -> RoundTo(x, 10)
      [] nd = 1 -> RoundTo(x, 100)
      [] nd = 0 -> RoundTo(x, 1000)

\* Python's round(y, 2) of a double y whose decimal value is x (scaled by S)
\* and which lies below (side = -1), on (0) or above (1) that decimal value:
\* at a decimal tie the side of the double decides, not the decimal
round_double(x, side) ==
    IF Abs(x) % 10 = 5 /\ side # 0 THEN x + 5 * side ELSE round(x, 2)

---------------------------------------------------------------------------
(* Crop coefficient (Kc).  ndvi and Kc are scaled by S.                    *)

\* a slip in the default of the lookup: the initial base for unknown stages
base_kc_default_initial(growth_stage) ==
    CASE growth_stage = "initial" -> 500
      [] growth_stage = "mid"     -> 650
      [] growth_stage = "late"    -> 600
      [] OTHER                    -> 500

\* base_kc.get(growth_stage, 0.65)
base_kc(growth_stage) ==
    CASE growth_stage = "initial" -> 500
      [] growth_stage = "mid"     -> 650
      [] growth_stage = "late"    -> 600
      [] OTHER                    -> 650

\* a slip in the table of adjustments: +0.25 under severe stress
adjustment_large(ndvi_score) ==
    IF ndvi_score < 300 THEN 250
    ELSE IF ndvi_score < 500 THEN 100
    ELSE IF ndvi_score < 700 THEN 50
    ELSE 0

\* a slip in the table of adjustments: two bands exchanged
adjustment_swapped(ndvi_score) ==
    IF ndvi_score < 300 THEN 100
    ELSE IF ndvi_score < 500 THEN 150
    ELSE IF ndvi_score < 700 THEN 50
    ELSE 0

\* the if / elif chain on ndvi_score shared by every copy
adjustment(ndvi_score) ==
    IF ndvi_score < 300 THEN 150
    ELSE IF ndvi_score < 500 THEN 100
    ELSE IF ndvi_score < 700 THEN 50
    ELSE 0

\* a clamp that bites: [0.4, 0.75]
calculate_crop_coefficient_mock_narrow(ndvi_score, growth_stage) ==
    Min(Max(base_kc(growth_stage) + adjustment(ndvi_score), 400), 750)

\* src/main_mock_data.py: base + adjustment, clamped to [0.4, 0.85]
calculate_crop_coefficient_mock(ndvi_score, growth_stage) ==
    LET kc == base_kc(growth_stage) + adjustment(ndvi_score)
    IN  Min(Max(kc, 400), 850)

\* src/main.py: base + adjustment, no clamp
calculate_crop_coefficient_main(ndvi_score, growth_stage) ==
    base_kc(growth_stage) + adjustment(ndvi_score)

\* src/main_live_data.py: base + adjustment, no clamp
calculate_crop_coefficient_live(ndvi_score, growth_stage) ==
    base_kc(growth_stage) + adjustment(ndvi_score)

\* src/kc_service.py: base + adjustment, rounded to two decimals
calculate_kc(ndvi, stage) ==
    round(base_kc(stage) + adjustment(ndvi), 2)

KcImpls == {"mock", "main", "live", "service"}

Kc(impl, ndvi, stage) ==
    CASE impl = "mock"    -> calculate_crop_coefficient_mock(ndvi, stage)
      [] impl = "main"    -> calculate_crop_coefficient_main(ndvi, stage)
      [] impl = "live"    -> calculate_crop_coefficient_live(ndvi, stage)
      [] impl = "service" -> calculate_kc(ndvi, stage)

---------------------------------------------------------------------------
(* Reference evapotranspiration (ET0).                                     *)
(*                                                                         *)
(* An observation is a record                                              *)
(*   [temp_max, temp_min : whole degrees C,  humidity : percent,           *)
(*    wind_speed : m/s scaled by S,  latitude : degrees scaled by S,       *)
(*    day_of_year : 1..368]                                                *)
(* The transcendental functions of the math module are tabulated (values   *)
(* computed with Python's math module) at the arguments the model feeds    *)
(* them; everything between the calls is computed here.                    *)

\* math.sin((2 * math.pi / 365) * day_of_year - 1.39), scaled by S, for day_of_year = 1..368
SinDeclArg ==
    << -980, -977, -973, -969, -965, -960, -955, -950, -944, -938, -932,
       -926, -919, -912, -905, -898, -890, -882, -874, -865, -857, -848,
       -838, -829, -819, -809, -799, -788, -778, -767, -755, -744, -732,
       -721, -709, -696, -684, -671, -658, -645, -632, -619, -605, -591,
       -577, -563, -549, -534, -520, -505, -490, -475, -460, -444, -429,
       -413, -397, -382, -366, -350, -333, -317, -301, -284, -268, -251,
       -234, -218, -201, -184, -167, -150, -133, -116, -99, -82, -64, -47,
       -30, -13, 4, 22, 39, 56, 73, 90, 107, 125, 142, 159, 176, 192, 209,
       226, 243, 260, 276, 293, 309, 325, 342, 358, 374, 390, 405, 421, 437,
       452, 467, 483, 498, 512, 527, 542, 556, 570, 584, 598, 612, 625, 639,
       652, 665, 678, 690, 703, 715, 727, 738, 750, 761, 772, 783, 794, 804,
       814, 824, 834, 843, 852, 861, 870, 878, 886, 894, 902, 909, 916, 923,
       929, 935, 941, 947, 952, 957, 962, 967, 971, 975, 979, 982, 985, 988,
       991, 993, 995, 996, 998, 999, 999, 1000, 1000, 1000, 999, 999, 998,
       996, 995, 993, 991, 988, 985, 982, 979, 975, 971, 967, 962, 957, 952,
       947, 941, 935, 929, 923, 916, 909, 901, 894, 886, 878, 870, 861, 852,
       843, 834, 824, 814, 804, 794, 783, 772, 761, 750, 738, 727, 715, 702,
       690, 678, 665, 652, 639, 625, 612, 598, 584, 570, 556, 542, 527, 512,
       497, 482, 467, 452, 437, 421, 405, 390, 374, 358, 342, 325, 309, 293,
       276, 259, 243, 226, 209, 192, 175, 159, 141, 124, 107, 90, 73, 56, 39,
       21, 4, -13, -30, -47, -65, -82, -99, -116, -133, -150, -167, -184,
       -201, -218, -235, -251, -268, -284, -301, -317, -334, -350, -366,
       -382, -398, -413, -429, -444, -460, -475, -490, -505, -520, -534,
       -549, -563, -577, -591, -605, -619, -632, -645, -658, -671, -684,
       -696, -709, -721, -733, -744, -756, -767, -778, -788, -799, -809,
       -819, -829, -838, -848, -857, -865, -874, -882, -890, -898, -905,
       -912, -919, -926, -932, -938, -944, -950, -955, -960, -965, -969,
       -973, -977, -980, -984, -987, -989, -992, -994, -996, -997, -998,
       -999, -1000, -1000, -1000, -1000, -999, -998, -997, -996, -994, -992,
       -989, -987, -984, -980, -977, -973 >>

\* math.cos(2 * math.pi * day_of_year / 365), scaled by S, for day_of_year = 1..368
CosDayArg ==
    << 1000, 999, 999, 998, 996, 995, 993, 991, 988, 985, 982, 979, 975, 971,
       967, 962, 957, 952, 947, 941, 935, 929, 923, 916, 909, 902, 894, 886,
       878, 870, 861, 852, 843, 834, 824, 814, 804, 794, 783, 772, 761, 750,
       738, 727, 715, 703, 690, 678, 665, 652, 639, 625, 612, 598, 584, 570,
       556, 542, 527, 512, 498, 483, 467, 452, 437, 421, 405, 390, 374, 358,
       342, 325, 309, 293, 276, 260, 243, 226, 209, 192, 176, 159, 142, 124,
       107, 90, 73, 56, 39, 22, 4, -13, -30, -47, -65, -82, -99, -116, -133,
       -150, -167, -184, -201, -218, -234, -251, -268, -284, -301, -317,
       -333, -350, -366, -382, -398, -413, -429, -444, -460, -475, -490,
       -505, -520, -534, -549, -563, -577, -591, -605, -619, -632, -645,
       -658, -671, -684, -696, -709, -721, -732, -744, -755, -767, -778,
       -788, -799, -809, -819, -829, -838, -848, -857, -865, -874, -882,
       -890, -898, -905, -912, -919, -926, -932, -938, -944, -950, -955,
       -960, -965, -969, -973, -977, -980, -984, -987, -989, -992, -994,
       -996, -997, -998, -999, -1000, -1000, -1000, -1000, -999, -998, -997,
       -996, -994, -992, -989, -987, -984, -980, -977, -973, -969, -965,
       -960, -955, -950, -944, -938, -932, -926, -919, -912, -905, -898,
       -890, -882, -874, -865, -857, -848, -838, -829, -819, -809, -799,
       -788, -778, -767, -755, -744, -732, -721, -709, -696, -684, -671,
       -658, -645, -632, -619, -605, -591, -577, -563, -549, -534, -520,
       -505, -490, -475, -460, -444, -429, -413, -398, -382, -366, -350,
       -333, -317, -301, -284, -268, -251, -234, -218, -201, -184, -167,
       -150, -133, -116, -99, -82, -65, -47, -30, -13, 4, 22, 39, 56, 73, 90,
       107, 124, 142, 159, 176, 192, 209, 226, 243, 260, 276, 293, 309, 325,
       342, 358, 374, 390, 405, 421, 437, 452, 467, 483, 498, 512, 527, 542,
       556, 570, 584, 598, 612, 625, 639, 652, 665, 678, 690, 703, 715, 727,
       738, 750, 761, 772, 783, 794, 804, 814, 824, 834, 843, 852, 861, 870,
       878, 886, 894, 902, 909, 916, 923, 929, 935, 941, 947, 952, 957, 962,
       967, 971, 975, 979, 982, 985, 988, 991, 993, 995, 996, 998, 999, 999,
       1000, 1000, 1000, 999, 999 >>

\* math.acos(x), scaled by S, for x = -1.00, -0.99, ..., 1.00
AcosTable ==
    << 3142, 3000, 2941, 2896, 2858, 2824, 2793, 2765, 2739, 2714, 2691,
       2668, 2647, 2626, 2606, 2587, 2568, 2550, 2532, 2515, 2498, 2482,
       2465, 2450, 2434, 2419, 2404, 2389, 2375, 2360, 2346, 2332, 2319,
       2305, 2292, 2278, 2265, 2252, 2240, 2227, 2214, 2202, 2190, 2177,
       2165, 2153, 2141, 2129, 2118, 2106, 2094, 2083, 2071, 2060, 2049,
       2038, 2026, 2015, 2004, 1993, 1982, 1971, 1961, 1950, 1939, 1928,
       1918, 1907, 1897, 1886, 1875, 1865, 1855, 1844, 1834, 1823, 1813,
       1803, 1793, 1782, 1772, 1762, 1752, 1742, 1731, 1721, 1711, 1701,
       1691, 1681, 1671, 1661, 1651, 1641, 1631, 1621, 1611, 1601, 1591,
       1581, 1571, 1561, 1551, 1541, 1531, 1521, 1511, 1501, 1491, 1481,
       1471, 1461, 1451, 1440, 1430, 1420, 1410, 1400, 1390, 1380, 1369,
       1359, 1349, 1339, 1328, 1318, 1308, 1297, 1287, 1277, 1266, 1256,
       1245, 1234, 1224, 1213, 1203, 1192, 1181, 1170, 1159, 1148, 1137,
       1126, 1115, 1104, 1093, 1082, 1070, 1059, 1047, 1036, 1024, 1012,
       1000, 988, 976, 964, 952, 940, 927, 915, 902, 889, 876, 863, 850, 837,
       823, 809, 795, 781, 767, 752, 738, 723, 707, 692, 676, 660, 644, 627,
       609, 592, 574, 555, 536, 516, 495, 473, 451, 428, 403, 376, 348, 318,
       284, 246, 200, 142, 0 >>

\* math.sin(a), scaled by S, for a = 0.00, 0.01, ..., 3.15
SinTable ==
    << 0, 10, 20, 30, 40, 50, 60, 70, 80, 90, 100, 110, 120, 130, 140, 149,
       159, 169, 179, 189, 199, 208, 218, 228, 238, 247, 257, 267, 276, 286,
       296, 305, 315, 324, 333, 343, 352, 362, 371, 380, 389, 399, 408, 417,
       426, 435, 444, 453, 462, 471, 479, 488, 497, 506, 514, 523, 531, 540,
       548, 556, 565, 573, 581, 589, 597, 605, 613, 621, 629, 637, 644, 652,
       659, 667, 674, 682, 689, 696, 703, 710, 717, 724, 731, 738, 745, 751,
       758, 764, 771, 777, 783, 790, 796, 802, 808, 813, 819, 825, 830, 836,
       841, 847, 852, 857, 862, 867, 872, 877, 882, 887, 891, 896, 900, 904,
       909, 913, 917, 921, 925, 928, 932, 936, 939, 942, 946, 949, 952, 955,
       958, 961, 964, 966, 969, 971, 973, 976, 978, 980, 982, 984, 985, 987,
       989, 990, 991, 993, 994, 995, 996, 997, 997, 998, 999, 999, 1000,
       1000, 1000, 1000, 1000, 1000, 1000, 999, 999, 998, 998, 997, 996, 995,
       994, 993, 992, 990, 989, 987, 986, 984, 982, 980, 978, 976, 974, 972,
       969, 967, 964, 961, 958, 956, 953, 949, 946, 943, 940, 936, 933, 929,
       925, 921, 917, 913, 909, 905, 901, 896, 892, 887, 883, 878, 873, 868,
       863, 858, 853, 848, 842, 837, 831, 826, 820, 814, 808, 803, 797, 790,
       784, 778, 772, 765, 759, 752, 746, 739, 732, 725, 718, 711, 704, 697,
       690, 683, 675, 668, 661, 653, 645, 638, 630, 622, 614, 606, 598, 590,
       582, 574, 566, 558, 549, 541, 533, 524, 516, 507, 498, 490, 481, 472,
       463, 454, 445, 436, 427, 418, 409, 400, 391, 382, 372, 363, 354, 344,
       335, 326, 316, 307, 297, 287, 278, 268, 259, 249, 239, 230, 220, 210,
       200, 190, 181, 171, 161, 151, 141, 131, 121, 111, 101, 91, 82, 72, 62,
       52, 42, 32, 22, 12, 2, -8 >>

\* math.exp((17.27 * T) / (T + 237.3)), scaled by S, for T = -10, -9, ..., 45 degrees C
ExpTetens ==
    << 468, 506, 547, 592, 639, 690, 744, 802, 863, 930, 1000, 1075, 1155,
       1241, 1331, 1428, 1531, 1640, 1756, 1880, 2010, 2149, 2296, 2452,
       2617, 2792, 2977, 3172, 3379, 3598, 3828, 4072, 4329, 4600, 4885,
       5186, 5503, 5837, 6188, 6558, 6947, 7355, 7785, 8235, 8709, 9205,
       9727, 10273, 10846, 11446, 12075, 12734, 13423, 14145, 14899, 15688 >>

\* math.sin(math.radians(latitude)), scaled by S, keyed by latitude * S
SinLat ==
    (-90000 :> -1000) @@ (-70000 :> -940) @@ (0 :> 0) @@ (35505 :> 581)
    @@ (35775 :> 585) @@ (35800 :> 585) @@ (35826 :> 585) @@ (66000 :> 914)
    @@ (70000 :> 940) @@ (90000 :> 1000) @@ (95000 :> 996)

\* math.cos(math.radians(latitude)), scaled by S, keyed by latitude * S
CosLat ==
    (-90000 :> 0) @@ (-70000 :> 342) @@ (0 :> 1000) @@ (35505 :> 814)
    @@ (35775 :> 811) @@ (35800 :> 811) @@ (35826 :> 811) @@ (66000 :> 407)
    @@ (70000 :> 342) @@ (90000 :> 0) @@ (95000 :> -87)

\* math.tan(math.radians(latitude)), scaled by S and saturated at +-2000
\* (the float tangent of 90 degrees is 1.6e16), keyed by latitude * S
TanLat ==
    (-90000 :> -2000000) @@ (-70000 :> -2747) @@ (0 :> 0) @@ (35505 :> 713)
    @@ (35775 :> 721) @@ (35800 :> 721) @@ (35826 :> 722) @@ (66000 :> 2246)
    @@ (70000 :> 2747) @@ (90000 :> 2000000) @@ (95000 :> -11430)

\* math.log(67.8 * 10 - 5.42) = ln 672.58, scaled by S
LogHeightMinus == 6511

\* math.log(67.8 * z + 5.42) with z = 10.0: ln 683.42, scaled by S
LogHeightPlus == 6527

\* sin, cos and tan of the solar declination d (|d| <= 0.409 rad, scaled
\* by S), by their Taylor polynomials
sin_decl(d) ==
    d - (Mul(Mul(d, d), d) \div 6) + (Mul(Mul(Mul(d, d), d), Mul(d, d)) \div 120)

cos_decl(d) ==
    S - (Mul(d, d) \div 2) + (Mul(Mul(d, d), Mul(d, d)) \div 24)

tan_decl(d) == (sin_decl(d) * S) \div cos_decl(d)

\* math.acos(x) for -1 <= x <= 1 (x scaled by S): AcosTable, interpolated
acos(x) ==
    AcosTable[(x + S) \div 10 + 1]
    + ((AcosTable[Min((x + S) \div 10 + 2, 201)] - AcosTable[(x + S) \div 10 + 1])
       * ((x + S) % 10)) \div 10

\* math.sin(a) for 0 <= a <= pi (a scaled by S): SinTable, interpolated
sin_angle(a) ==
    SinTable[a \div 10 + 1]
    + ((SinTable[Min(a \div 10 + 2, 316)] - SinTable[a \div 10 + 1]) * (a % 10)) \div 10

temp_mean(obs) == ((obs.temp_max + obs.temp_min) * S) \div 2

solar_declination(obs) == Mul(409, SinDeclArg[obs.day_of_year])

\* -math.tan(lat_rad) * math.tan(solar_declination): the argument of acos
sunset_arg(obs) ==
    -Mul(TanLat[obs.latitude], tan_decl(solar_declination(obs)))

\* dr = 1 + 0.033 * math.cos(2 * math.pi * day_of_year / 365)
dr(obs) == S + Mul(33, CosDayArg[obs.day_of_year])

\* ra = 37.6 * dr * (sunset_angle * sin(lat) * sin(decl)
\*                   + cos(lat) * cos(decl) * sin(sunset_angle))
ra(obs, sunset_angle) ==
    Mul(Mul(37600, dr(obs)),
        Mul(Mul(sunset_angle, SinLat[obs.latitude]), sin_decl(solar_declination(obs)))
        + Mul(Mul(CosLat[obs.latitude], cos_decl(solar_declination(obs))),
              sin_angle(sunset_angle)))

\* rs = (0.25 + 0.5) * ra
rs(obs, sunset_angle) == Mul(750, ra(obs, sunset_angle))

\* Tetens: 0.6108 * math.exp((17.27 * T) / (T + 237.3))
tetens(T) == (6108 * ExpTetens[T + 11]) \div 10000

es(obs) == (tetens(obs.temp_max) + tetens(obs.temp_min)) \div 2

ea(obs) == (es(obs) * obs.humidity) \div 100

\* ---- src/main_mock_data.py ----

\* sunset_angle = math.acos(max(-1.0, min(1.0, ...)))
sunset_angle_mock(obs) == acos(Max(-S, Min(S, sunset_arg(obs))))

\* rn = max(0.0, 0.77 * rs - 0.9)
rn_mock(obs) == Max(0, Mul(770, rs(obs, sunset_angle_mock(obs))) - 900)

\* vpd = max(0.0, es - ea)
vpd_mock(obs) == Max(0, es(obs) - ea(obs))

\* denom = math.log(67.8 * z + 5.42); u2 = wind_speed * (4.87 / denom) if denom > 0 else wind_speed
u2_mock(obs) ==
    IF LogHeightPlus > 0 THEN Mul(obs.wind_speed, Quo(4870, LogHeightPlus))
    ELSE obs.wind_speed

\* et0 = (0.408 * rn + (900.0 / (temp_mean + 273.0)) * u2 * vpd) / (1.0 + 0.34 * u2)
\* inside try: ... except Exception: et0 = 0.0  (a zero divisor)
penman_mock(rn, vpd, u2, tk) ==
    IF tk = 0 \/ S + Mul(340, u2) = 0 THEN 0
    ELSE Quo(Mul(408, rn) + Mul(Mul(Quo(900 * S, tk), u2), vpd), S + Mul(340, u2))

calculate_et0_mock(obs) ==
    [ok |-> TRUE,
     et0 |-> Max(0, penman_mock(rn_mock(obs), vpd_mock(obs), u2_mock(obs),
                                temp_mean(obs) + 273 * S))]

\* ---- src/main.py, src/main_live_data.py, src/et0_service.py ----

\* rn = 0.77 * rs - 0.9
rn_main(obs, sunset_angle) == Mul(770, rs(obs, sunset_angle)) - 900

\* vpd = es - ea
vpd_main(obs) == es(obs) - ea(obs)

\* u2 = wind_speed * (4.87 / math.log(67.8 * 10 - 5.42))
u2_main(obs) == Mul(obs.wind_speed, Quo(4870, LogHeightMinus))

\* the body the three copies share, up to the unrounded et0;
\* math.acos raises ValueError outside [-1, 1], a zero divisor raises
\* ZeroDivisionError
\* et0 = (0.408 * rn + 900 * (temp_mean + 273) * u2 * vpd / (temp_mean + 273))
\*       / (1 + 0.34 * u2)
penman_main(rn, vpd, u2, tk) ==
    Quo(Mul(408, rn) + Quo(Mul(Mul(900 * tk, u2), vpd), tk), S + Mul(340, u2))

et0_from(obs, x, u2, tk) ==
    IF x < -S \/ x > S THEN [ok |-> FALSE, err |-> "ValueError"]
    ELSE IF tk = 0 \/ S + Mul(340, u2) = 0 THEN [ok |-> FALSE, err |-> "ZeroDivisionError"]
    ELSE [ok |-> TRUE, et0 |-> penman_main(rn_main(obs, acos(x)), vpd_main(obs), u2, tk)]

et0_unclamped(obs) ==
    et0_from(obs, sunset_arg(obs), u2_main(obs), temp_mean(obs) + 273 * S)

\* max(0, et0) of a value, an exception as it is
floor_at_zero(r) == IF r.ok THEN [ok |-> TRUE, et0 |-> Max(0, r.et0)] ELSE r

\* round(et0, 2) of a value, an exception as it is
round_outcome(r) == IF r.ok THEN [ok |-> TRUE, et0 |-> round(r.et0, 2)] ELSE r

\* src/main.py: return max(0, et0)
calculate_et0_main(obs) == floor_at_zero(et0_unclamped(obs))

\* src/main_live_data.py: return max(0, et0)
calculate_et0_live(obs) == floor_at_zero(et0_unclamped(obs))

\* src/et0_service.py: {"et0": round(max(0, et0), 2)}
calculate_et0_service(obs) == round_outcome(floor_at_zero(et0_unclamped(obs)))

Et0Impls == {"mock", "main", "live", "service"}

Et0(impl, obs) ==
    CASE impl = "mock"    -> calculate_et0_mock(obs)
      [] impl = "main"    -> calculate_et0_main(obs)
      [] impl = "live"    -> calculate_et0_live(obs)
      [] impl = "service" -> calculate_et0_service(obs)

---------------------------------------------------------------------------
(* Water and cost savings.  Volumes in m3 are scaled by S; a volume in     *)
(* litres is held in whole litres, where round(x, 2) changes nothing;      *)
(* litres per tree, hours, percentages and money are scaled by S.          *)

\* x * 1000: a volume in m3 (scaled by S) as whole litres
liters_of_m3(x) == x \div (S \div 1000)

ZeroSavings ==
    [ok |-> TRUE,
     water_saved_liters |-> 0,
     water_saved_cubic_meters |-> 0,
     percentage_saved |-> 0,
     cost_saved_tnd |-> 0,
     cost_saved_usd |-> 0]

\* The saved cost is a double; where its decimal value is a tie of
\* round(., 2) the side on which the double lies decides what is reported.
\* The two tables give that side (sign of double minus decimal, computed
\* with Python) for the pairs <<traditional, smart>> of the direct calls at
\* which the cost is a tie; elsewhere the side plays no part.

\* (traditional - smart) * 1000 * 0.0005
LitrePriceSide ==
    (<<350, -1000>> :> 1) @@ (<<350, 0>> :> 1) @@ (<<350, 3200>> :> -1)
    @@ (<<350, 5000>> :> -1) @@ (<<350, 7000>> :> -1) @@ (<<350, 100000>> :> -1)

\* max(0.0, traditional - smart) * 0.5
CubicMetrePriceSide == (<<350, -1000>> :> 1) @@ (<<350, 0>> :> -1)

side_of(table, traditional, smart) ==
    IF <<traditional, smart>> \in DOMAIN table THEN table[<<traditional, smart>>] ELSE 0

\* the dictionary every copy returns; cost_saved_usd = cost_saved_tnd * 0.32
savings_report(water_saved_m3, water_saved_liters, percentage_saved, cost_saved_tnd, cost_side) ==
    [ok |-> TRUE,
     water_saved_liters |-> water_saved_liters,
     water_saved_cubic_meters |-> round(water_saved_m3, 2),
     percentage_saved |-> round(percentage_saved, 2),
     cost_saved_tnd |-> round_double(cost_saved_tnd, cost_side),
     cost_saved_usd |-> round(Mul(cost_saved_tnd, 320), 2)]

\* src/main_mock_data.py
calculate_water_savings_mock(traditional_amount, smart_amount) ==
    IF traditional_amount <= 0 \/ smart_amount < 0 THEN ZeroSavings
    ELSE
        savings_report(Max(0, traditional_amount - smart_amount),
                       liters_of_m3(Max(0, traditional_amount - smart_amount)),
                       \* (water_saved_m3 / traditional_amount) * 100.0
                       IF traditional_amount > 0
                       THEN Percent(Max(0, traditional_amount - smart_amount),
                                    traditional_amount)
                       ELSE 0,
                       \* cost_saved_tnd = water_saved_m3 * 0.5
                       Mul(Max(0, traditional_amount - smart_amount), 500),
                       side_of(CubicMetrePriceSide, traditional_amount, smart_amount))

\* the body src/main.py, src/main_live_data.py and src/savings_service.py
\* share: no guard, no max; a zero baseline raises ZeroDivisionError
savings_unguarded(traditional_amount, smart_amount) ==
    IF traditional_amount = 0 THEN [ok |-> FALSE, err |-> "ZeroDivisionError"]
    ELSE
        savings_report(traditional_amount - smart_amount,
                       liters_of_m3(traditional_amount - smart_amount),
                       \* ((traditional - smart) / traditional) * 100
                       Percent(traditional_amount - smart_amount, traditional_amount),
                       \* water_saved_liters * 0.0005 (whole litres, 0.0005 scaled by S * S)
                       Mul(liters_of_m3(traditional_amount - smart_amount), 500),
                       side_of(LitrePriceSide, traditional_amount, smart_amount))

\* src/main.py
calculate_water_savings_main(traditional_amount, smart_amount) ==
    savings_unguarded(traditional_amount, smart_amount)

\* src/main_live_data.py
calculate_water_savings_live(traditional_amount, smart_amount) ==
    savings_unguarded(traditional_amount, smart_amount)

\* src/savings_service.py (its key for the volume is "water_saved_m3")
calculate_savings(traditional, smart) ==
    savings_unguarded(traditional, smart)

SavingsImpls == {"mock", "main", "live", "service"}

Savings(impl, traditional, smart) ==
    CASE impl = "mock"    -> calculate_water_savings_mock(traditional, smart)
      [] impl = "main"    -> calculate_water_savings_main(traditional, smart)
      [] impl = "live"    -> calculate_water_savings_live(traditional, smart)
      [] impl = "service" -> calculate_savings(traditional, smart)

---------------------------------------------------------------------------
(* The demo registry and the JSON request of /api/calculate-irrigation.    *)

\* DEMO_FARMS as the modules define it (latitude, longitude, size and ndvi
\* scaled by S); name, owner, soil and the other descriptive keys are
\* never read by the engine and are left out
InitialFarms ==
    ("farm_001" :> [id |-> "farm_001", lat |-> 35826, lon |-> 10637,
                    size_hectares |-> 2000, tree_count |-> 400, ndvi_score |-> 450])
    @@ ("farm_002" :> [id |-> "farm_002", lat |-> 35775, lon |-> 10826,
                       size_hectares |-> 5000, tree_count |-> 1000, ndvi_score |-> 720])
    @@ ("farm_003" :> [id |-> "farm_003", lat |-> 35505, lon |-> 11059,
                       size_hectares |-> 3000, tree_count |-> 600, ndvi_score |-> 380])

\* A JSON value of the request body: the key is absent, a number, or a
\* string that is not a number.
Absent == [k |-> "none"]
Num(x) == [k |-> "num", v |-> x]
NotANumber == [k |-> "str"]

\* float(x) / int(x) on a present JSON value: ValueError on a non-numeric
\* string
cast(x) ==
    IF x.k = "num" THEN [ok |-> TRUE, v |-> x.v] ELSE [ok |-> FALSE, err |-> "ValueError"]

\* float(x) if x is not None else default
cast_or_default(x, default) ==
    IF x.k = "none" THEN [ok |-> TRUE, v |-> default] ELSE cast(x)

\* the five parameters after the else branch of src/main_mock_data.py
\* (lines 326-334) or the casts of src/main.py (lines 259-263)
cast_params(data) ==
    LET lat  == cast_or_default(data.latitude, 35800)
        lon  == cast_or_default(data.longitude, 10600)
        size == cast_or_default(data.size_hectares, 2000)
        tree == cast_or_default(data.tree_count, 400)
        ndvi == cast_or_default(data.ndvi_score, 500)
    IN  IF lat.ok /\ lon.ok /\ size.ok /\ tree.ok /\ ndvi.ok
        THEN [ok |-> TRUE, lat |-> lat.v, lon |-> lon.v, size_hectares |-> size.v,
              tree_count |-> tree.v, ndvi_score |-> ndvi.v]
        ELSE [ok |-> FALSE, err |-> "ValueError"]

\* the values a registered farm supplies
farm_params(farm) ==
    [ok |-> TRUE, lat |-> farm.lat, lon |-> farm.lon,
     size_hectares |-> farm.size_hectares, tree_count |-> farm.tree_count,
     ndvi_score |-> farm.ndvi_score]

---------------------------------------------------------------------------
(* Weather.  The OpenWeather API is the environment: it is down (any       *)
(* exception of the fetch) or it answers with the current weather and a    *)
(* list of daily entries                                                   *)
(*   [temp_max, temp_min, humidity, wind_speed, weather, rain_probability] *)

FallbackCurrent ==
    [temperature |-> 28, humidity |-> 65, wind_speed |-> 3500, weather |-> "Clear"]

FallbackForecast ==
    << [temp_max |-> 30, temp_min |-> 20, humidity |-> 60, wind_speed |-> 3200,
        weather |-> "Clear", rain_probability |-> 5],
       [temp_max |-> 29, temp_min |-> 19, humidity |-> 65, wind_speed |-> 3500,
        weather |-> "Clear", rain_probability |-> 10],
       [temp_max |-> 27, temp_min |-> 18, humidity |-> 70, wind_speed |-> 4000,
        weather |-> "Clouds", rain_probability |-> 30] >>

\* forecast[:n]
Take(seq, n) == SubSeq(seq, 1, Min(n, Len(seq)))

\* src/main_mock_data.py fetch_weather_data and src/main.py get_weather:
\* the answer of the API (at most 7 daily entries), or on any exception
\* the canned data with success False
fetch_weather_data(api) ==
    IF api.up
    THEN [success |-> TRUE, current |-> api.current, forecast |-> Take(api.forecast, 7)]
    ELSE [success |-> FALSE, current |-> FallbackCurrent, forecast |-> FallbackForecast]

---------------------------------------------------------------------------
(* The pipeline of calculate_irrigation, step by step.                     *)

Observation(day, lat, day_of_year) ==
    [temp_max |-> day.temp_max, temp_min |-> day.temp_min, humidity |-> day.humidity,
     wind_speed |-> day.wind_speed, latitude |-> lat, day_of_year |-> day_of_year]

\* the for loop over the forecast: day_of_year starts at today and
\* "day_of_year += 1" follows every entry; the arguments of every call
observations_of_days(forecast, lat, today) ==
    [i \in 1..Len(forecast) |-> Observation(forecast[i], lat, today + i - 1)]

\* the ET0 outcome of every entry
et0_of_days(impl, forecast, lat, today) ==
    [i \in 1..Len(forecast) |->
        Et0(impl, observations_of_days(forecast, lat, today)[i])]

RECURSIVE SumEt0(_, _)
SumEt0(outcomes, n) ==
    IF n = 0 THEN 0 ELSE outcomes[n].et0 + SumEt0(outcomes, n - 1)

\* sum((d.rain_probability / 100) * 5 for d in forecast), mm scaled by S
RECURSIVE expected_rain(_)
expected_rain(forecast) ==
    IF forecast = << >> THEN 0
    ELSE Head(forecast).rain_probability * 50 + expected_rain(Tail(forecast))

\* a slip: the rainfall credit is subtracted without the floor at zero
net_irrigation_mm_unfloored(etc, rain) == etc - rain

\* net_irrigation_mm = max(0, etc - expected_rain)
net_irrigation_mm(etc, rain) == Max(0, etc - rain)

\* (net_irrigation_mm / 1000) * area_m2, with area_m2 in whole m2
irrigation_m3(net_mm, area_m2) == Mul(net_mm, area_m2)

\* a slip: the volume is shared among the trees by an integer division
liters_per_tree_floor(irrigation_liters, tree_count) ==
    IF tree_count > 0 THEN (irrigation_liters \div tree_count) * S ELSE 0

\* liters_per_tree = irrigation_liters / tree_count if tree_count > 0 else 0
liters_per_tree(irrigation_liters, tree_count) ==
    IF tree_count > 0 THEN Quo(irrigation_liters, tree_count) ELSE 0

\* hours_per_tree = liters_per_tree / 4 if liters_per_tree > 0 else 0
hours_per_tree(per_tree) ==
    IF per_tree > 0 THEN Quo(per_tree, 4 * S) ELSE 0

\* the if / elif chain on ndvi_score that sets health_status, urgency and
\* message (the emoji that opens three of the messages is left out)
\* a slip at a band edge: <= 0.3 instead of < 0.3
health_mock_inclusive(ndvi_score) ==
    IF ndvi_score <= 300 THEN
        [status |-> "Critical - High Stress", urgency |-> "urgent",
         message |-> "Severe drought stress detected. Immediate irrigation recommended."]
    ELSE IF ndvi_score < 500 THEN
        [status |-> "Moderate Stress", urgency |-> "high",
         message |-> "Trees showing stress. Irrigation recommended soon."]
    ELSE IF ndvi_score < 700 THEN
        [status |-> "Healthy", urgency |-> "normal",
         message |-> "Trees are healthy. Follow recommended schedule."]
    ELSE
        [status |-> "Excellent", urgency |-> "low",
         message |-> "Trees in excellent condition."]

health_mock(ndvi_score) ==
    IF ndvi_score < 300 THEN
        [status |-> "Critical - High Stress", urgency |-> "urgent",
         message |-> "Severe drought stress detected. Immediate irrigation recommended."]
    ELSE IF ndvi_score < 500 THEN
        [status |-> "Moderate Stress", urgency |-> "high",
         message |-> "Trees showing stress. Irrigation recommended soon."]
    ELSE IF ndvi_score < 700 THEN
        [status |-> "Healthy", urgency |-> "normal",
         message |-> "Trees are healthy. Follow recommended schedule."]
    ELSE
        [status |-> "Excellent", urgency |-> "low",
         message |-> "Trees in excellent condition."]

health_main(ndvi_score) ==
    IF ndvi_score < 300 THEN
        [status |-> "Critical - High Stress", urgency |-> "urgent",
         message |-> "Your olive trees show severe drought stress. Immediate irrigation recommended!"]
    ELSE IF ndvi_score < 500 THEN
        [status |-> "Moderate Stress", urgency |-> "high",
         message |-> "Your trees are showing stress. Irrigation needed soon."]
    ELSE IF ndvi_score < 700 THEN
        [status |-> "Healthy", urgency |-> "normal",
         message |-> "Your trees are healthy. Follow recommended schedule."]
    ELSE
        [status |-> "Excellent", urgency |-> "low",
         message |-> "Your trees are in excellent condition!"]

\* an uncaught exception: Flask answers 500
Raised(name) == [status |-> 500, success |-> FALSE, raised |-> TRUE, error |-> name]

\* a JSON error body the handler returns itself
Refused(code, text) == [status |-> code, success |-> FALSE, raised |-> FALSE, error |-> text]

\* The locals of the handler, one record that grows block by block.

\* the parameters, the forecast window and total_et0, kc, expected_rain
\* (src/main_mock_data.py lines 353-372, src/main.py lines 285-305)
demand(p, today, forecast, total_et0, kc) ==
    [lat |-> p.lat, size_hectares |-> p.size_hectares, tree_count |-> p.tree_count,
     ndvi_score |-> p.ndvi_score, today |-> today, forecast |-> forecast,
     total_et0 |-> total_et0, kc |-> kc, etc |-> Mul(total_et0, kc),
     expected_rain |-> expected_rain(forecast)]

\* net_irrigation_mm, area_m2 and irrigation_m3
volume(l, area_m2) ==
    l @@ [net_irrigation_mm |-> net_irrigation_mm(l.etc, l.expected_rain),
          area_m2 |-> area_m2,
          irrigation_m3 |-> irrigation_m3(net_irrigation_mm(l.etc, l.expected_rain), area_m2)]

\* a baseline of twice the smart volume
shares_doubled(l) ==
    l @@ [irrigation_liters |-> liters_of_m3(l.irrigation_m3),
          traditional_m3 |-> Mul(l.irrigation_m3, 2000)]

\* irrigation_liters = irrigation_m3 * 1000; traditional_m3 = irrigation_m3 * 1.5
shares(l) ==
    l @@ [irrigation_liters |-> liters_of_m3(l.irrigation_m3),
          traditional_m3 |-> Mul(l.irrigation_m3, 1500)]

per_tree(l) ==
    l @@ [liters_per_tree |-> liters_per_tree(l.irrigation_liters, l.tree_count)]

duration(l) ==
    l @@ [hours_per_tree |-> hours_per_tree(l.liters_per_tree)]

\* if not forecast: one entry made of the current weather
forecast_or_current(forecast, current) ==
    IF forecast = << >>
    THEN << [temp_max |-> current.temperature,
             temp_min |-> current.temperature,
             humidity |-> current.humidity,
             wind_speed |-> current.wind_speed,
             weather |-> current.weather,
             rain_probability |-> 0] >>
    ELSE forecast

\* src/main_mock_data.py, lines 353-388
locals_mock(p, today, forecast) ==
    duration(per_tree(shares(volume(
        demand(p, today, forecast,
               SumEt0(et0_of_days("mock", forecast, p.lat, today), Len(forecast)),
               calculate_crop_coefficient_mock(p.ndvi_score, "mid")),
        \* area_m2 = max(0.0, size_hectares) * 10000.0, in whole m2
        Max(0, p.size_hectares) * 10))))

\* src/main_mock_data.py, lines 408-444: the response
response_mock(weather, l, savings, health) ==
    [status |-> 200, success |-> TRUE, raised |-> FALSE,
     irrigation_needed_mm |-> round(l.net_irrigation_mm, 2),
     irrigation_needed_m3 |-> round(l.irrigation_m3, 3),
     irrigation_needed_liters |-> l.irrigation_liters,
     liters_per_tree |-> round(l.liters_per_tree, 2),
     duration_hours_per_tree |-> round(l.hours_per_tree, 2),
     urgency |-> health.urgency,
     message |-> health.message,
     ndvi_score |-> round(l.ndvi_score, 3),
     health_status |-> health.status,
     kc_coefficient |-> round(l.kc, 3),
     total_et0_mm |-> round(l.total_et0, 2),
     expected_rain_mm |-> round(l.expected_rain, 2),
     current_temp |-> weather.current.temperature,
     \* " -> ".join(d.get('weather', '') for d in (forecast + [{}])[:3])
     forecast_summary |-> [i \in 1..Min(3, Len(l.forecast) + 1) |->
                              IF i <= Len(l.forecast) THEN l.forecast[i].weather ELSE ""],
     savings |-> savings,
     traditional_method_m3 |-> round(l.traditional_m3, 3),
     smart_method_m3 |-> round(l.irrigation_m3, 3),
     efficiency_improvement |-> savings.percentage_saved,
     weather_fetch_success |-> weather.success,
     locals |-> l]

answer_mock(weather, l) ==
    response_mock(weather, l,
                  calculate_water_savings_mock(l.traditional_m3, l.irrigation_m3),
                  health_mock(l.ndvi_score))

\* src/main_mock_data.py, lines 337-444: from the weather to the response
pipeline_mock(p, weather, today) ==
    answer_mock(weather,
                locals_mock(p, today,
                            forecast_or_current(Take(weather.forecast, 3), weather.current)))

\* the parameters: a registered farm overrides the request, else cast or default
params_mock(farms, data) ==
    IF data.farm_id # "" /\ data.farm_id \in DOMAIN farms
    THEN farm_params(farms[data.farm_id])
    ELSE cast_params(data)

serve_mock(p, api, today) ==
    IF ~p.ok THEN Refused(400, "Invalid input parameter types")
    ELSE pipeline_mock(p, fetch_weather_data(api), today)

\* src/main_mock_data.py calculate_irrigation
calculate_irrigation_mock(farms, data, api, today) ==
    serve_mock(params_mock(farms, data), api, today)

\* src/main.py, lines 285-321
locals_main(p, today, forecast, outcomes) ==
    duration(per_tree(shares(volume(
        demand(p, today, forecast,
               SumEt0(outcomes, Len(forecast)),
               calculate_crop_coefficient_main(p.ndvi_score, "mid")),
        \* area_m2 = size_hectares * 10000, in whole m2
        p.size_hectares * 10))))

\* src/main.py, lines 341-370: the response
response_main(weather, l, savings, health) ==
    IF ~savings.ok THEN Raised(savings.err) @@ [locals |-> l]
    \* forecast[0], forecast[1], forecast[2] in the summary
    ELSE IF Len(l.forecast) < 3 THEN Raised("IndexError") @@ [locals |-> l]
    ELSE
    [status |-> 200, success |-> TRUE, raised |-> FALSE,
     irrigation_needed_mm |-> round(l.net_irrigation_mm, 2),
     irrigation_needed_m3 |-> round(l.irrigation_m3, 2),
     irrigation_needed_liters |-> l.irrigation_liters,
     liters_per_tree |-> round(l.liters_per_tree, 2),
     duration_hours_per_tree |-> round(l.hours_per_tree, 2),
     urgency |-> health.urgency,
     message |-> health.message,
     ndvi_score |-> l.ndvi_score,
     health_status |-> health.status,
     kc_coefficient |-> round(l.kc, 3),
     total_et0_mm |-> round(l.total_et0, 2),
     expected_rain_mm |-> round(l.expected_rain, 2),
     current_temp |-> weather.current.temperature,
     forecast_summary |-> [i \in 1..3 |-> l.forecast[i].weather],
     savings |-> savings,
     traditional_method_m3 |-> round(l.traditional_m3, 2),
     smart_method_m3 |-> round(l.irrigation_m3, 2),
     efficiency_improvement |-> savings.percentage_saved,
     locals |-> l]

answer_main(weather, l) ==
    response_main(weather, l,
                  calculate_water_savings_main(l.traditional_m3, l.irrigation_m3),
                  health_main(l.ndvi_score))

\* the for loop: the first exception of calculate_et0 leaves the handler
et0_loop_main(p, weather, today, forecast, outcomes) ==
    IF \E i \in 1..Len(forecast) : ~outcomes[i].ok
    THEN Raised((CHOOSE o \in {outcomes[i] : i \in 1..Len(forecast)} : ~o.ok).err)
    ELSE answer_main(weather, locals_main(p, today, forecast, outcomes))

\* src/main.py, lines 281-370: from the weather to the response
pipeline_main(p, weather, today) ==
    et0_loop_main(p, weather, today, Take(weather.forecast, 3),
                  et0_of_days("main", Take(weather.forecast, 3), p.lat, today))

\* a registered farm overrides the values cast from the request
params_main(farms, data, c) ==
    IF data.farm_id # "" /\ data.farm_id \in DOMAIN farms
    THEN farm_params(farms[data.farm_id])
    ELSE c

\* if not weather_data['success']: 500
fetched_main(p, weather, today) ==
    IF ~weather.success THEN Refused(500, "Weather data unavailable")
    ELSE pipeline_main(p, weather, today)

serve_main(farms, data, c, api, today) ==
    IF ~c.ok THEN Raised(c.err)
    ELSE fetched_main(params_main(farms, data, c), fetch_weather_data(api), today)

\* src/main.py calculate_irrigation: the casts come first and are not
\* guarded, then the farm overrides, then a failed fetch is refused
calculate_irrigation_main(farms, data, api, today) ==
    serve_main(farms, data, cast_params(data), api, today)

IrrigationImpls == {"mock", "main"}

CalculateIrrigation(impl, farms, data, api, today) ==
    CASE impl = "mock" -> calculate_irrigation_mock(farms, data, api, today)
      [] impl = "main" -> calculate_irrigation_main(farms, data, api, today)

---------------------------------------------------------------------------
(* The other endpoints.  Each is a function of the registry and of its     *)
(* path parameters (and, for the weather, of the API's answer).            *)

NotFound == Refused(404, "Farm not found")

\* GET /api/farms
get_farms(farms) ==
    [status |-> 200, success |-> TRUE, raised |-> FALSE,
     count |-> Cardinality(DOMAIN farms),
     farms |-> {farms[f] : f \in DOMAIN farms}]

\* GET /api/farms/<farm_id>
get_farm(farms, farm_id) ==
    IF farm_id \notin DOMAIN farms THEN NotFound
    ELSE [status |-> 200, success |-> TRUE, raised |-> FALSE, farm |-> farms[farm_id]]

\* GET /api/weather/<lat>/<lon>, src/main_mock_data.py: float(lat), float(lon)
\* or 400, then the fetched data (success False with the canned data when
\* the API is down)
get_weather_route(api, lat, lon) ==
    IF ~cast(lat).ok \/ ~cast(lon).ok THEN Refused(400, "Invalid lat/lon")
    ELSE [status |-> 200, raised |-> FALSE] @@ fetch_weather_data(api)

\* GET /api/weather/<lat>/<lon>, src/main.py: the path strings go to the
\* API as they are
get_weather(api, lat, lon) ==
    [status |-> 200, raised |-> FALSE] @@ fetch_weather_data(api)

\* the three canned zone lists of get_ndvi (ndvi scaled by S)
zones(ndvi_score) ==
    IF ndvi_score < 400 THEN
        << [zone |-> "North", ndvi |-> 350, status |-> "Stressed", area_pct |-> 40],
           [zone |-> "Center", ndvi |-> 400, status |-> "Moderate", area_pct |-> 35],
           [zone |-> "South", ndvi |-> 450, status |-> "Moderate", area_pct |-> 25] >>
    ELSE IF ndvi_score < 600 THEN
        << [zone |-> "North", ndvi |-> 500, status |-> "Moderate", area_pct |-> 30],
           [zone |-> "Center", ndvi |-> 550, status |-> "Healthy", area_pct |-> 45],
           [zone |-> "South", ndvi |-> 480, status |-> "Moderate", area_pct |-> 25] >>
    ELSE
        << [zone |-> "North", ndvi |-> 700, status |-> "Healthy", area_pct |-> 40],
           [zone |-> "Center", ndvi |-> 750, status |-> "Excellent", area_pct |-> 40],
           [zone |-> "South", ndvi |-> 680, status |-> "Healthy", area_pct |-> 20] >>

recommendations(ndvi_score) ==
    << IF ndvi_score < 500 THEN "Focus irrigation on stressed zones"
       ELSE "Maintain current irrigation schedule",
       IF \E i \in 1..3 : zones(ndvi_score)[i].status = "Stressed"
       THEN "Monitor North zone closely"
       ELSE "All zones performing well" >>

\* GET /api/farms/<farm_id>/ndvi
get_ndvi(farms, farm_id) ==
    IF farm_id \notin DOMAIN farms THEN NotFound
    ELSE [status |-> 200, success |-> TRUE, raised |-> FALSE,
          farm_id |-> farm_id,
          overall_ndvi |-> farms[farm_id].ndvi_score,
          acquisition_date |-> "2025-10-22",
          satellite |-> "Sentinel-2",
          zones |-> zones(farms[farm_id].ndvi_score),
          recommendations |-> recommendations(farms[farm_id].ndvi_score)]

\* {'month': ..., 'saved_m3': round(traditional_usage * share, 1),
\*  'saved_tnd': round(traditional_usage * share * 0.5, 2)}
month(name, traditional_usage, share) ==
    [month |-> name,
     saved_m3 |-> round(Mul(traditional_usage, share), 1),
     saved_tnd |-> round(Mul(Mul(traditional_usage, share), 500), 2)]

\* the body of the answer of get_savings
savings_answer(farm_id, traditional_usage, smart_usage, savings) ==
    IF ~savings.ok THEN Raised(savings.err)
    ELSE [status |-> 200, success |-> TRUE, raised |-> FALSE,
          farm_id |-> farm_id,
          period |-> "Current Season (Oct 2024 - Oct 2025)",
          traditional_usage_m3 |-> traditional_usage,
          smart_usage_m3 |-> smart_usage,
          savings |-> savings,
          environmental_impact |->
              [aquifer_preservation_m3 |-> savings.water_saved_cubic_meters,
               co2_saved_kg |-> round(Mul(savings.water_saved_cubic_meters, 500), 2),
               trees_equivalent |-> round(savings.water_saved_cubic_meters \div 100, 0)],
          monthly_breakdown |->
              << month("Nov 2024", traditional_usage, 80),
                 month("Dec 2024", traditional_usage, 60),
                 month("Jan 2025", traditional_usage, 50) >>]

\* GET /api/farms/<farm_id>/savings, src/main_mock_data.py:
\* max(0.0, size) * 5000.0 and max(0.0, size) * 3200.0, in m3
get_savings_mock(farms, farm_id) ==
    IF farm_id \notin DOMAIN farms THEN NotFound
    ELSE savings_answer(farm_id,
                        Max(0, farms[farm_id].size_hectares) * 5000,
                        Max(0, farms[farm_id].size_hectares) * 3200,
                        calculate_water_savings_mock(
                            Max(0, farms[farm_id].size_hectares) * 5000,
                            Max(0, farms[farm_id].size_hectares) * 3200))

\* GET /api/farms/<farm_id>/savings, src/main.py: size * 5000 and size * 3200
get_savings_main(farms, farm_id) ==
    IF farm_id \notin DOMAIN farms THEN NotFound
    ELSE savings_answer(farm_id,
                        farms[farm_id].size_hectares * 5000,
                        farms[farm_id].size_hectares * 3200,
                        calculate_water_savings_main(farms[farm_id].size_hectares * 5000,
                                                     farms[farm_id].size_hectares * 3200))

---------------------------------------------------------------------------
(* Inputs the model draws from.                                            *)

\* vegetation index values (scaled by S): both sides of every band edge,
\* the ends of [0,1], and one value below 0 (NDVI ranges over [-1,1])
NdviValues == {-200, 0, 200, 299, 300, 450, 499, 500, 699, 700, 720, 1000}

\* growth-stage labels; "flowering" is not a key of base_kc
Stages == {"initial", "mid", "late", "flowering"}

\* daily observations handed to calculate_et0
Observations ==
    [temp_max : {30}, temp_min : {20}, humidity : {0, 60, 100, 110},
     wind_speed : {0, 3200},
     latitude : {-90000, -70000, 0, 35800, 66000, 70000, 90000},
     day_of_year : {1, 81, 172, 300, 355, 366}]

\* baseline and smart volumes (m3 scaled by S) handed to the savings code
TraditionalValues == {-1000, 0, 350, 5000, 150000}

SmartValues == {-1000, 0, 3200, 5000, 7000, 100000}

\* request bodies of /api/calculate-irrigation
FarmIds == {"", "farm_001", "farm_002", "farm_003", "farm_999"}

Request(farm_id, latitude, size_hectares, tree_count, ndvi_score) ==
    [farm_id |-> farm_id, latitude |-> latitude, longitude |-> Absent,
     size_hectares |-> size_hectares, tree_count |-> tree_count,
     ndvi_score |-> ndvi_score]

Requests ==
    {Request(f, lat, Absent, Absent, Absent) :
        f \in FarmIds, lat \in {Absent, NotANumber, Num(70000)}}
    \cup
    {Request("", lat, size, trees, ndvi) :
        lat \in {Absent, Num(70000), Num(95000)},
        size \in {Absent, Num(0), Num(-1000)},
        trees \in {Absent, Num(0), Num(-5)},
        ndvi \in {Absent, Num(0), Num(299), Num(300), Num(699), Num(700), Num(1000)}}

\* what the weather API may answer
MildDay ==
    [temp_max |-> 20, temp_min |-> 10, humidity |-> 80, wind_speed |-> 1000,
     weather |-> "Clouds", rain_probability |-> 20]

WetDay ==
    [temp_max |-> 20, temp_min |-> 10, humidity |-> 100, wind_speed |-> 0,
     weather |-> "Rain", rain_probability |-> 100]

ApiDays == << MildDay, MildDay, WetDay, MildDay, WetDay, MildDay >>

\* the longest forecast the API answers with
MaxForecastDays == 4

ApiCurrent ==
    [temperature |-> 22, humidity |-> 70, wind_speed |-> 2000, weather |-> "Clouds"]

ApiAnswers ==
    {[up |-> FALSE]}
    \cup {[up |-> TRUE, current |-> ApiCurrent, forecast |-> Take(ApiDays, n)] :
             n \in 0..MaxForecastDays}
    \cup {[up |-> TRUE, current |-> ApiCurrent, forecast |-> << WetDay, WetDay, WetDay >>]}

\* the day of the year the request is served on
Todays == {1, 172, 364, 365, 366}

---------------------------------------------------------------------------
(* The state machine: a worker serves one operation at a time.             *)

Idle == [fn |-> "none", impl |-> "none"]

Init ==
    /\ DEMO_FARMS = InitialFarms
    /\ call = Idle
    /\ result = [ok |-> TRUE]

\* a direct call of one Kc implementation
CallKc ==
    /\ call = Idle
    /\ \E impl \in KcImpls, ndvi \in NdviValues, stage \in Stages :
        /\ call' = [fn |-> "kc", impl |-> impl, ndvi |-> ndvi, stage |-> stage]
        /\ result' = [ok |-> TRUE, kc |-> Kc(impl, ndvi, stage)]
    /\ UNCHANGED DEMO_FARMS

\* a direct call of one calculate_et0 implementation
CallEt0 ==
    /\ call = Idle
    /\ \E impl \in Et0Impls, obs \in Observations :
        /\ call' = [fn |-> "et0", impl |-> impl, obs |-> obs]
        /\ result' = Et0(impl, obs)
    /\ UNCHANGED DEMO_FARMS

\* a direct call of one savings implementation
CallSavings ==
    /\ call = Idle
    /\ \E impl \in SavingsImpls, t \in TraditionalValues, s \in SmartValues :
        /\ call' = [fn |-> "savings", impl |-> impl, traditional |-> t, smart |-> s]
        /\ result' = Savings(impl, t, s)
    /\ UNCHANGED DEMO_FARMS

\* POST /api/calculate-irrigation; the answer of the weather API and the
\* wall-clock day are the environment's
PostCalculateIrrigation ==
    /\ call = Idle
    /\ \E impl \in IrrigationImpls, data \in Requests, api \in ApiAnswers, today \in Todays :
        /\ call' = [fn |-> "calculate_irrigation", impl |-> impl, data |-> data,
                    api |-> api, today |-> today]
        /\ result' = CalculateIrrigation(impl, DEMO_FARMS, data, api, today)
    /\ UNCHANGED DEMO_FARMS

\* the response is delivered and the worker is free again
Return ==
    /\ call # Idle
    /\ call' = Idle
    /\ result' = [ok |-> TRUE]
    /\ UNCHANGED DEMO_FARMS

Next ==
    \/ CallKc
    \/ CallEt0
    \/ CallSavings
    \/ PostCalculateIrrigation
    \/ Return

Spec == Init /\ [][Next]_vars

---------------------------------------------------------------------------
(* The application under its threaded server (app.run): several workers    *)
(* serve requests to the six endpoints at the same time.  Here call and    *)
(* result hold one entry per worker; a request is received, answered from  *)
(* the registry as it is at that moment, and delivered.                    *)

\* the number of worker threads
MaxWorkers == 2

Workers == 1..MaxWorkers

\* requests the workers receive
EndpointImpls == {"mock", "main"}

WorkerRequests ==
    {[fn |-> "farms", impl |-> impl] : impl \in EndpointImpls}
    \cup {[fn |-> "farm", impl |-> impl, farm_id |-> f] :
             impl \in EndpointImpls, f \in {"farm_001", "farm_999"}}
    \cup {[fn |-> "weather", impl |-> impl, lat |-> lat, lon |-> Num(10600)] :
             impl \in EndpointImpls, lat \in {Num(35800), NotANumber}}
    \cup {[fn |-> "calculate_irrigation", impl |-> impl, data |-> data] :
             impl \in EndpointImpls,
             data \in {Request("farm_003", Absent, Absent, Absent, Absent),
                       Request("", Absent, Absent, Absent, Num(700))}}
    \cup {[fn |-> "ndvi", impl |-> impl, farm_id |-> f] :
             impl \in EndpointImpls, f \in {"farm_003", "farm_999"}}
    \cup {[fn |-> "savings", impl |-> impl, farm_id |-> f] :
             impl \in EndpointImpls, f \in {"farm_002", "farm_999"}}

WorkerApis ==
    {[up |-> FALSE],
     [up |-> TRUE, current |-> ApiCurrent, forecast |-> << MildDay, MildDay, MildDay >>]}

WorkerTodays == {1}

InitWorkers ==
    /\ DEMO_FARMS = InitialFarms
    /\ call = [w \in Workers |-> Idle]
    /\ result = [w \in Workers |-> [ok |-> TRUE]]

\* worker w takes a request
Receive(w) ==
    /\ call[w] = Idle
    /\ \E req \in WorkerRequests :
        call' = [call EXCEPT ![w] = [pc |-> "accepted"] @@ req]
    /\ UNCHANGED <<DEMO_FARMS, result>>

Accepted(w, fn) == call[w].fn = fn /\ call[w].pc = "accepted"

ServeGetFarms(w) ==
    /\ Accepted(w, "farms")
    /\ result' = [result EXCEPT ![w] = get_farms(DEMO_FARMS)]
    /\ call' = [call EXCEPT ![w].pc = "answered"]
    /\ UNCHANGED DEMO_FARMS

ServeGetFarm(w) ==
    /\ Accepted(w, "farm")
    /\ result' = [result EXCEPT ![w] = get_farm(DEMO_FARMS, call[w].farm_id)]
    /\ call' = [call EXCEPT ![w].pc = "answered"]
    /\ UNCHANGED DEMO_FARMS

ServeGetWeather(w) ==
    /\ Accepted(w, "weather")
    /\ \E api \in WorkerApis :
        /\ result' = [result EXCEPT ![w] =
                          IF call[w].impl = "mock"
                          THEN get_weather_route(api, call[w].lat, call[w].lon)
                          ELSE get_weather(api, call[w].lat, call[w].lon)]
        /\ call' = [call EXCEPT ![w] = [pc |-> "answered", api |-> api] @@ call[w]]
    /\ UNCHANGED DEMO_FARMS

ServeCalculateIrrigation(w) ==
    /\ Accepted(w, "calculate_irrigation")
    /\ \E api \in WorkerApis, today \in WorkerTodays :
        /\ result' = [result EXCEPT ![w] =
                          CalculateIrrigation(call[w].impl, DEMO_FARMS, call[w].data, api, today)]
        /\ call' = [call EXCEPT ![w] =
                        [pc |-> "answered", api |-> api, today |-> today] @@ call[w]]
    /\ UNCHANGED DEMO_FARMS

\* the mean of the three zones
zone_mean(ndvi_score) ==
    (zones(ndvi_score)[1].ndvi + zones(ndvi_score)[2].ndvi + zones(ndvi_score)[3].ndvi) \div 3

\* a slip: get_ndvi stores the mean of its zones back into the farm's entry
ServeGetNdvi_storing(w) ==
    /\ Accepted(w, "ndvi")
    /\ result' = [result EXCEPT ![w] = get_ndvi(DEMO_FARMS, call[w].farm_id)]
    /\ call' = [call EXCEPT ![w].pc = "answered"]
    /\ DEMO_FARMS' =
           IF call[w].farm_id \in DOMAIN DEMO_FARMS
           THEN [DEMO_FARMS EXCEPT ![call[w].farm_id].ndvi_score =
                     zone_mean(DEMO_FARMS[call[w].farm_id].ndvi_score)]
           ELSE DEMO_FARMS

ServeGetNdvi(w) ==
    /\ Accepted(w, "ndvi")
    /\ result' = [result EXCEPT ![w] = get_ndvi(DEMO_FARMS, call[w].farm_id)]
    /\ call' = [call EXCEPT ![w].pc = "answered"]
    /\ UNCHANGED DEMO_FARMS

ServeGetSavings(w) ==
    /\ Accepted(w, "savings")
    /\ result' = [result EXCEPT ![w] =
                      IF call[w].impl = "mock"
                      THEN get_savings_mock(DEMO_FARMS, call[w].farm_id)
                      ELSE get_savings_main(DEMO_FARMS, call[w].farm_id)]
    /\ call' = [call EXCEPT ![w].pc = "answered"]
    /\ UNCHANGED DEMO_FARMS

\* the response leaves and the worker is free again
Deliver(w) ==
    /\ call[w] # Idle
    /\ call[w].pc = "answered"
    /\ call' = [call EXCEPT ![w] = Idle]
    /\ result' = [result EXCEPT ![w] = [ok |-> TRUE]]
    /\ UNCHANGED DEMO_FARMS

NextWorkers ==
    \E w \in Workers :
        \/ Receive(w)
        \/ ServeGetFarms(w)
        \/ ServeGetFarm(w)
        \/ ServeGetWeather(w)
        \/ ServeCalculateIrrigation(w)
        \/ ServeGetNdvi(w)
        \/ ServeGetSavings(w)
        \/ Deliver(w)

SpecWorkers == InitWorkers /\ [][NextWorkers]_vars

---------------------------------------------------------------------------
(* Properties.                                                             *)

\* a valid daily observation: humidity in [0,100], wind_speed >= 0,
\* latitude in [-90,90], day_of_year in [1,366]
ValidObservation(obs) ==
    /\ obs.humidity >= 0 /\ obs.humidity <= 100
    /\ obs.wind_speed >= 0
    /\ obs.latitude >= -90 * S /\ obs.latitude <= 90 * S
    /\ obs.day_of_year >= 1 /\ obs.day_of_year <= 366

\* C1: for every valid daily observation every implementation of
\* calculate_et0 returns a value, and that value is ET0 >= 0.
C1_Et0NonNegative ==
    (call.fn = "et0" /\ ValidObservation(call.obs))
        => (result.ok /\ result.et0 >= 0)

\* C2: for every ndvi in [0,1] and every growth-stage label, recognized or
\* not, the crop coefficient every implementation returns is in [0.40, 0.85].
C2_KcInRange ==
    (call.fn = "kc" /\ call.ndvi >= 0 /\ call.ndvi <= S)
        => (result.kc >= 400 /\ result.kc <= 850)

\* the largest coefficient any copy returns: severe stress at the mid base,
\* reached through an unrecognized stage label
C2_Witness ==
    /\ call.fn = "kc" /\ call.impl = "main"
    /\ call.ndvi >= 0 /\ call.ndvi < 300
    /\ call.stage = "flowering"
    /\ result.kc = 800

\* the handler went far enough to have computed the pipeline's locals
HasLocals == call.fn = "calculate_irrigation" /\ "locals" \in DOMAIN result

\* amounts (mm, scaled by S) by which a second invocation differs
Deltas == {0, 1, 500, 20 * S}

\* C3: in calculate_irrigation, net_irrigation_mm =
\* max(0, total_et0*kc - expected_rain) is never negative, does not decrease
\* when total_et0 grows (kc and rain fixed) and does not grow when
\* expected_rain grows (total_et0 and kc fixed).
C3_NetIrrigationMonotone ==
    HasLocals =>
        LET l == result.locals
        IN  /\ l.net_irrigation_mm >= 0
            /\ l.net_irrigation_mm = Max(0, Mul(l.total_et0, l.kc) - l.expected_rain)
            /\ \A d \in Deltas :
                /\ net_irrigation_mm(Mul(l.total_et0 + d, l.kc), l.expected_rain)
                       >= l.net_irrigation_mm
                /\ net_irrigation_mm(Mul(l.total_et0, l.kc), l.expected_rain + d)
                       <= l.net_irrigation_mm

\* the rainfall credit exceeds the demand and the floor is what answers
C3_Witness ==
    /\ HasLocals
    /\ result.locals.total_et0 > 0
    /\ result.locals.etc < result.locals.expected_rain
    /\ result.locals.net_irrigation_mm = 0

\* C4: the savings computation never fails on a degenerate baseline: whenever
\* traditional <= 0 or smart < 0 it returns, without an exception or a
\* division by zero, a report whose five fields are all zero.
C4_DegenerateBaselineAllZero ==
    (/\ call.fn = "savings"
     /\ call.impl \in {"mock", "main"}
     /\ (call.traditional <= 0 \/ call.smart < 0))
        => (/\ result.ok
            /\ result.water_saved_liters = 0
            /\ result.water_saved_cubic_meters = 0
            /\ result.percentage_saved = 0
            /\ result.cost_saved_tnd = 0
            /\ result.cost_saved_usd = 0)

\* the response without the locals kept beside it
Response(r) == [f \in DOMAIN r \ {"locals"} |-> r[f]]

\* C5: calculate_irrigation is deterministic in its request inputs: served
\* with the same request body and the same forecast, it answers the same
\* whatever the wall-clock day it is served on.
C5_DeterministicInRequest ==
    call.fn = "calculate_irrigation" =>
        \A day \in Todays :
            Response(CalculateIrrigation(call.impl, DEMO_FARMS, call.data, call.api, day))
                = Response(result)

\* C6: the Kc adjustment is monotone in stress: for ndvi1 <= ndvi2 and the
\* same growth stage, adjustment(ndvi1) >= adjustment(ndvi2), hence
\* Kc(ndvi1, stage) >= Kc(ndvi2, stage).
C6_AdjustmentMonotone ==
    call.fn = "kc" =>
        \A ndvi2 \in NdviValues :
            call.ndvi <= ndvi2 =>
                /\ adjustment(call.ndvi) >= adjustment(ndvi2)
                /\ result.kc >= Kc(call.impl, ndvi2, call.stage)

\* just under a band edge the coefficient is strictly above the one at the edge
C6_Witness ==
    /\ call.fn = "kc" /\ call.impl = "service"
    /\ call.ndvi = 299
    /\ result.kc > Kc(call.impl, 300, call.stage)

\* the base table and the bands of the adjustment as the contract states them
ContractBase(stage) ==
    IF stage = "initial" THEN 500 ELSE IF stage = "late" THEN 600 ELSE 650

ContractAdjustment(ndvi) ==
    IF ndvi >= 700 THEN 0 ELSE IF ndvi >= 500 THEN 50 ELSE IF ndvi >= 300 THEN 100 ELSE 150

\* C7: for every ndvi and stage, Kc = clamp(base[stage] + adjustment(ndvi),
\* 0.40, 0.85) with base {initial 0.50, mid 0.65, late 0.60}, an unrecognized
\* stage using 0.65, and adjustment +0.15 / +0.10 / +0.05 / +0.0 for
\* ndvi < 0.3 / < 0.5 / < 0.7 / >= 0.7; Kc(0.45, mid) = 0.75 and
\* Kc(0.2, initial) = 0.65.
C7_KcFormula ==
    (call.fn = "kc" /\ call.impl = "mock") =>
        /\ result.kc = Min(Max(ContractBase(call.stage) + ContractAdjustment(call.ndvi), 400), 850)
        /\ (call.ndvi = 450 /\ call.stage = "mid") => result.kc = 750
        /\ (call.ndvi = 200 /\ call.stage = "initial") => result.kc = 650

\* the second scenario of the claim has been served
C7_Witness ==
    /\ call.fn = "kc" /\ call.impl = "mock"
    /\ call.ndvi = 200 /\ call.stage = "initial"
    /\ result.kc = 650

\* C8: the depth-to-volume conversion in calculate_irrigation computes
\* volume_m3 = (net_mm/1000) * area_hectares * 10000,
\* volume_liters = volume_m3 * 1000,
\* liters_per_plant = volume_liters / plant_count and
\* hours_per_plant = liters_per_plant / 4 (for a plot of area >= 0 with at
\* least one plant; areas are multiples of 0.1 ha, so the volume is exact
\* and the two quotients are exact to 0.001); for 2.0 ha, 400 plants and
\* 5.0 mm this gives 100 m3, 250 l per plant and 62.5 h per plant.
C8_DepthToVolume ==
    /\ (/\ HasLocals
        /\ result.locals.size_hectares >= 0
        /\ result.locals.size_hectares % 100 = 0
        /\ result.locals.tree_count > 0)
        => LET l      == result.locals
               whole  == l.irrigation_liters \div l.tree_count
               rest   == l.irrigation_liters % l.tree_count
           IN  /\ l.irrigation_m3 = l.net_irrigation_mm * (l.size_hectares \div 100)
               /\ l.irrigation_liters =
                      (l.irrigation_m3 \div S) * 1000 + ((l.irrigation_m3 % S) * 1000) \div S
               /\ l.liters_per_tree >= whole * S
               /\ l.liters_per_tree < (whole + 1) * S
               /\ (l.liters_per_tree - whole * S) * l.tree_count <= rest * S
               /\ (l.liters_per_tree - whole * S + 1) * l.tree_count > rest * S
               /\ 4 * l.hours_per_tree <= l.liters_per_tree
               /\ 4 * l.hours_per_tree + 4 > l.liters_per_tree
    /\ irrigation_m3(5 * S, 2 * 10000) = 100 * S
    /\ liters_of_m3(100 * S) = 100000
    /\ liters_per_tree(100000, 400) = 250 * S
    /\ hours_per_tree(250 * S) = 62500

\* a plot with plants was given water, and the share of each plant is not a
\* whole number of litres
C8_Witness ==
    /\ HasLocals
    /\ result.locals.size_hectares > 0
    /\ result.locals.tree_count > 0
    /\ result.locals.irrigation_m3 > 0
    /\ result.locals.irrigation_liters % result.locals.tree_count # 0
    /\ result.locals.hours_per_tree > 0

\* the request was answered with a recommendation for an ndvi in [0,1]
Classified ==
    /\ HasLocals /\ result.success
    /\ result.locals.ndvi_score >= 0 /\ result.locals.ndvi_score <= S

\* the band an ndvi falls in, named by its lower bound
Band(ndvi) ==
    IF ndvi < 300 THEN 0 ELSE IF ndvi < 500 THEN 300 ELSE IF ndvi < 700 THEN 500 ELSE 700

\* the message the serving copy gives at the lower bound of the band
BandMessage(impl, ndvi) ==
    IF impl = "mock" THEN health_mock(Band(ndvi)).message
    ELSE health_main(Band(ndvi)).message

\* the three upper bands, on which the claim and its amendment agree
UpperBands(ndvi) ==
    /\ (ndvi >= 300 /\ ndvi < 500) =>
           (result.health_status = "Moderate Stress" /\ result.urgency = "high")
    /\ (ndvi >= 500 /\ ndvi < 700) =>
           (result.health_status = "Healthy" /\ result.urgency = "normal")
    /\ ndvi >= 700 =>
           (result.health_status = "Excellent" /\ result.urgency = "low")

\* C9 as stated: four ordered bands over [0,1]; ndvi < 0.3 gives status
\* "Critical" and urgency "urgent", then "Moderate Stress" / "high",
\* "Healthy" / "normal", "Excellent" / "low"; each band carries one fixed
\* message.
C9_Original ==
    Classified =>
        LET ndvi == result.locals.ndvi_score
        IN  /\ ndvi < 300 => (result.health_status = "Critical" /\ result.urgency = "urgent")
            /\ UpperBands(ndvi)
            /\ result.message = BandMessage(call.impl, ndvi)

\* C9 as amended: the same four bands, the lowest one carrying the status
\* "Critical - High Stress" (urgency "urgent"); every ndvi in [0,1] falls in
\* exactly one band and each band carries one fixed message.
C9_UrgencyBands ==
    Classified =>
        LET ndvi == result.locals.ndvi_score
        IN  /\ ndvi < 300 =>
                   (result.health_status = "Critical - High Stress" /\ result.urgency = "urgent")
            /\ UpperBands(ndvi)
            /\ result.message = BandMessage(call.impl, ndvi)
            /\ result.urgency \in {"urgent", "high", "normal", "low"}

\* an ndvi on the edge of the lowest band was classified in the second band
C9_Witness ==
    /\ Classified
    /\ result.locals.ndvi_score = 300
    /\ result.health_status = "Moderate Stress"

\* C10: for every pair (traditional, smart) the savings computation reports
\* saved_m3 = max(0, traditional - smart), so the saved volume, the saved
\* litres and the saved cost are never negative, also when smart exceeds
\* traditional, and percentage_saved = saved_m3 / traditional * 100 when
\* traditional > 0.
C10_SavedNeverNegative ==
    (/\ call.fn = "savings"
     /\ call.impl \in {"mock", "service", "live"}
     /\ call.traditional > 0 /\ call.smart >= 0)
        => (/\ result.ok
            /\ result.water_saved_cubic_meters
                   = round(Max(0, call.traditional - call.smart), 2)
            /\ result.water_saved_cubic_meters >= 0
            /\ result.water_saved_liters >= 0
            /\ result.cost_saved_tnd >= 0
            /\ result.percentage_saved
                   = round(Percent(Max(0, call.traditional - call.smart), call.traditional), 2))

\* the weather API answered the request being served
Fetched == call.fn = "calculate_irrigation" /\ call.api.up

\* C11: an empty forecast window is rejected: when the weather data supplies
\* zero forecast days, calculate_irrigation returns an error outcome and has
\* aggregated nothing (no silent zero requirement, no recommendation from
\* substituted data).
C11_EmptyForecastRejected ==
    (Fetched /\ call.api.forecast = << >>)
        => (~result.success /\ "locals" \notin DOMAIN result)

\* C12: the sunset-hour-angle computation clamps the argument of the
\* arc-cosine to [-1, 1], so for every latitude in [-90,90] (the polar ones
\* included) and every day_of_year in [1,366] every implementation of
\* calculate_et0 completes without a math domain error.
C12_SunsetAngleClamped ==
    (/\ call.fn = "et0"
     /\ call.obs.latitude >= -90 * S /\ call.obs.latitude <= 90 * S
     /\ call.obs.day_of_year >= 1 /\ call.obs.day_of_year <= 366)
        => ~(~result.ok /\ result.err = "ValueError")

\* C13: when the weather fetch fails, calculate_irrigation refuses to run: it
\* returns an error outcome with no recommendation, and computes nothing from
\* substituted default weather data.
C13_FetchFailureRefused ==
    (call.fn = "calculate_irrigation" /\ ~call.api.up)
        => (/\ ~result.success
            /\ "irrigation_needed_mm" \notin DOMAIN result
            /\ "locals" \notin DOMAIN result)

\* the request names no registered farm: its own values are the parameters
Direct ==
    /\ call.fn = "calculate_irrigation"
    /\ ~(call.data.farm_id # "" /\ call.data.farm_id \in DOMAIN DEMO_FARMS)
    /\ cast_params(call.data).ok

\* parameters outside the ranges of the contract
InvalidInput(p) ==
    \/ p.lat < -90 * S \/ p.lat > 90 * S
    \/ p.size_hectares <= 0
    \/ p.tree_count <= 0

\* C14: invalid input is rejected at the boundary with an error and no
\* partial result: a request whose latitude lies outside [-90,90], or whose
\* area or plant count is non-positive, yields an error outcome and never a
\* recommendation computed from a defaulted or clamped value.
C14_InvalidInputRejected ==
    (Direct /\ InvalidInput(cast_params(call.data)))
        => (~result.success /\ "locals" \notin DOMAIN result)

\* the intermediate values Rn, vpd and u2 of the copy that served the call
\* (the call returned, so the sunset angle exists)
RnOf(impl, obs) ==
    IF impl = "mock" THEN rn_mock(obs) ELSE rn_main(obs, acos(sunset_arg(obs)))

VpdOf(impl, obs) == IF impl = "mock" THEN vpd_mock(obs) ELSE vpd_main(obs)

U2Of(impl, obs) == IF impl = "mock" THEN u2_mock(obs) ELSE u2_main(obs)

\* the combination the contract states, from the intermediate values
\* (tk = temp_mean + 273):
\* max(0, (0.408*Rn + (900/tk)*u2*vpd) / (1 + 0.34*u2))
ContractEt0(rn, vpd, u2, tk) ==
    Max(0, Quo(Mul(408, rn) + Mul(Mul(Quo(900 * S, tk), u2), vpd), S + Mul(340, u2)))

\* what a copy hands back of a value: the service rounds to two decimals
Handed(impl, x) == IF impl = "service" THEN round(x, 2) ELSE x

\* C15: given the intermediate values Rn, u2, vpd and temp_mean, every
\* implementation of calculate_et0 returns
\* max(0, (0.408*Rn + (900/(temp_mean+273))*u2*vpd) / (1 + 0.34*u2)):
\* the aerodynamic term is scaled by 900 divided by (temp_mean + 273).
C15_PenmanCombination ==
    (call.fn = "et0" /\ result.ok)
        => result.et0
               = Handed(call.impl,
                        ContractEt0(RnOf(call.impl, call.obs), VpdOf(call.impl, call.obs),
                                    U2Of(call.impl, call.obs),
                                    temp_mean(call.obs) + 273 * S))

\* the observation of the contract's scenario
ScenarioObservation ==
    [temp_max |-> 30, temp_min |-> 20, humidity |-> 60, wind_speed |-> 3200,
     latitude |-> 35800, day_of_year |-> 300]

\* C16: for temp_max = 30, temp_min = 20, humidity = 60, wind_speed = 3.2,
\* latitude = 35.8 and day_of_year = 300, calculate_et0 returns a value in
\* the physically plausible range 0 to 10 mm/day.
C16_ScenarioPlausible ==
    (call.fn = "et0" /\ call.obs = ScenarioObservation)
        => (result.ok /\ result.et0 >= 0 /\ result.et0 <= 10 * S)

\* C17: in every implementation of calculate_et0 the wind speed is adjusted
\* to 2 m by u2 = wind_speed * 4.87 / ln(67.8*z - 5.42) with the measurement
\* height z fixed at 10 m (the log argument is 67.8*10 minus 5.42).
C17_WindAdjustment ==
    call.fn = "et0"
        => U2Of(call.impl, call.obs) = Mul(call.obs.wind_speed, Quo(4870, LogHeightMinus))

\* C18: calculate_irrigation never divides by the plant count unless it is
\* positive: for plant_count <= 0 (and weather at hand) it reports
\* liters_per_plant = 0 and hours_per_plant = 0 without raising, and whenever
\* it reports liters_per_plant = 0 it reports hours_per_plant = 0.
C18_PlantCountGuard ==
    /\ (Direct /\ Fetched /\ cast_params(call.data).tree_count <= 0)
           => (/\ result.success
               /\ result.liters_per_tree = 0
               /\ result.duration_hours_per_tree = 0)
    /\ (call.fn = "calculate_irrigation" /\ result.success /\ result.liters_per_tree = 0)
           => result.duration_hours_per_tree = 0

\* C19: for every traditional > 0 and 0 <= smart <= traditional, every
\* savings implementation reports cost_saved equal to saved_m3 * 0.5 and
\* cost_saved_usd = cost_saved * 0.32 (as the report rounds them): the
\* copies that compute saved_liters * 0.0005 and the copy that computes
\* saved_m3 * 0.5 return the same cost.
C19_CostPerCubicMetre ==
    (/\ call.fn = "savings"
     /\ call.traditional > 0
     /\ call.smart >= 0 /\ call.smart <= call.traditional)
        => (/\ result.ok
            /\ result.cost_saved_tnd
                   = round_double(Mul(call.traditional - call.smart, 500),
                                  side_of(CubicMetrePriceSide, call.traditional, call.smart))
            /\ result.cost_saved_usd
                   = round(Mul(Mul(call.traditional - call.smart, 500), 320), 2)
            /\ \A other \in SavingsImpls :
                /\ Savings(other, call.traditional, call.smart).cost_saved_tnd
                       = result.cost_saved_tnd
                /\ Savings(other, call.traditional, call.smart).cost_saved_usd
                       = result.cost_saved_usd)

\* the calls of calculate_et0 the handler made for its forecast window
Evaluated ==
    observations_of_days(result.locals.forecast, result.locals.lat, result.locals.today)

\* C20: while calculate_irrigation aggregates a forecast window, the i-th day
\* (i = 0, 1, 2) is evaluated with day_of_year = start_day + i, and every
\* day_of_year handed to calculate_et0 lies in [1,366], whatever the start
\* day (windows that begin on the last days of a year included).
C20_DayOfYearInRange ==
    HasLocals =>
        \A i \in 1..Len(Evaluated) :
            /\ Evaluated[i].day_of_year = call.today + (i - 1)
            /\ Evaluated[i].day_of_year >= 1
            /\ Evaluated[i].day_of_year <= 366

\* what a freshly started process answers to a request that was answered
Answer(req, farms) ==
    CASE req.fn = "farms"   -> get_farms(farms)
      [] req.fn = "farm"    -> get_farm(farms, req.farm_id)
      [] req.fn = "weather" ->
            IF req.impl = "mock" THEN get_weather_route(req.api, req.lat, req.lon)
            ELSE get_weather(req.api, req.lat, req.lon)
      [] req.fn = "calculate_irrigation" ->
            CalculateIrrigation(req.impl, farms, req.data, req.api, req.today)
      [] req.fn = "ndvi"    -> get_ndvi(farms, req.farm_id)
      [] req.fn = "savings" ->
            IF req.impl = "mock" THEN get_savings_mock(farms, req.farm_id)
            ELSE get_savings_main(farms, req.farm_id)

Answered(w) == call[w] # Idle /\ call[w].pc = "answered"

\* C21: no request handler writes shared state: after any sequence or
\* interleaving of requests to the six endpoints the DEMO_FARMS registry
\* equals its initial value, and every response is the one a freshly started
\* process gives to the same request (with the same weather answer and day),
\* whatever was served before or is being served by another worker.
C21_NoSharedWrites ==
    /\ DEMO_FARMS = InitialFarms
    /\ \A w \in Workers : Answered(w) => result[w] = Answer(call[w], InitialFarms)

\* a recommendation for a registered farm was computed while another worker
\* had answered that farm's vegetation request and not yet delivered it
C21_Witness ==
    \E w, v \in Workers :
        /\ w # v
        /\ Answered(w) /\ call[w].fn = "calculate_irrigation"
        /\ call[w].data.farm_id = "farm_003" /\ result[w].success
        /\ Answered(v) /\ call[v].fn = "ndvi" /\ call[v].farm_id = "farm_003"
        /\ result[v].success

\* C22: inside calculate_et0 the net radiation and the vapor pressure
\* deficit are clamped non-negative, Rn = max(0, 0.77*Rs - 0.9) and
\* vpd = max(0, es - ea): neither term of the ET0 numerator is negative for
\* any input (a small Ra and a relative humidity above 100 included).
C22_TermsNonNegative ==
    (call.fn = "et0" /\ result.ok)
        => (/\ RnOf(call.impl, call.obs) >= 0
            /\ VpdOf(call.impl, call.obs) >= 0)

\* C23: calculate_irrigation sets the traditional baseline to 1.5 times the
\* computed volume, so whenever the computed irrigation volume is positive
\* the recommendation reports a saved volume of half that volume and a saved
\* percentage of 33.33, whatever the weather, the vegetation index, the area
\* and the plant count.
C23_FixedFraction ==
    (HasLocals /\ result.success /\ result.locals.irrigation_m3 > 0)
        => (/\ result.locals.traditional_m3 - result.locals.irrigation_m3
                   = Mul(result.locals.irrigation_m3, 500)
            /\ result.savings.water_saved_cubic_meters
                   = round(Mul(result.locals.irrigation_m3, 500), 2)
            /\ result.savings.percentage_saved = 33330
            /\ result.efficiency_improvement = 33330)

\* src/main.py recommends a positive volume for a request of its own with no
\* plants and a vegetation index below the stressed band
C23_Witness ==
    /\ HasLocals /\ result.success /\ call.impl = "main"
    /\ result.locals.irrigation_m3 > 0
    /\ result.locals.tree_count = 0
    /\ result.locals.ndvi_score < 300
    /\ result.savings.percentage_saved = 33330

\* C24: the clamp of Kc to [0.4, 0.85] is never active: for every ndvi and
\* every stage label base + adjustment lies in [0.50, 0.80], so the clamped
\* copy (main_mock_data) and the unclamped copies (main, main_live_data and
\* kc_service before its rounding) return the same Kc for every input.
C24_ClampNeverActive ==
    (call.fn = "kc") =>
        /\ base_kc(call.stage) + adjustment(call.ndvi) >= 500
        /\ base_kc(call.stage) + adjustment(call.ndvi) <= 800
        /\ calculate_crop_coefficient_mock(call.ndvi, call.stage)
               = base_kc(call.stage) + adjustment(call.ndvi)
        /\ result.kc = IF call.impl = "service"
                       THEN round(calculate_crop_coefficient_mock(call.ndvi, call.stage), 2)
                       ELSE calculate_crop_coefficient_mock(call.ndvi, call.stage)

\* an unclamped copy served the largest sum, for an ndvi below zero
C24_Witness ==
    /\ call.fn = "kc" /\ call.impl = "live"
    /\ call.ndvi < 0 /\ call.stage = "mid"
    /\ result.kc = 800
    /\ calculate_crop_coefficient_mock(call.ndvi, call.stage) = 800

\* the request names a registered demo farm
Registered == call.data.farm_id # "" /\ call.data.farm_id \in DOMAIN DEMO_FARMS

\* C25: in calculate_irrigation, when the request's farm_id names a
\* registered demo farm the farm's latitude, longitude, size, tree count and
\* ndvi replace every request-supplied value, and the request's values for
\* those fields, malformed ones included, have no effect on the outcome: the
\* response is the one given to a request carrying the farm_id alone.  When
\* farm_id is absent or unknown no 'farm not found' error is returned and the
\* request values, or the defaults 35.8, 10.6, 2.0, 400 and 0.5, are used.
C25_FarmOverrides ==
    (call.fn = "calculate_irrigation") =>
        /\ Registered =>
              /\ result = CalculateIrrigation(call.impl, DEMO_FARMS,
                              Request(call.data.farm_id, Absent, Absent, Absent, Absent),
                              call.api, call.today)
              /\ HasLocals =>
                    /\ result.locals.lat = DEMO_FARMS[call.data.farm_id].lat
                    /\ result.locals.size_hectares = DEMO_FARMS[call.data.farm_id].size_hectares
                    /\ result.locals.tree_count = DEMO_FARMS[call.data.farm_id].tree_count
                    /\ result.locals.ndvi_score = DEMO_FARMS[call.data.farm_id].ndvi_score
        /\ ~Registered =>
              /\ result.status # 404
              /\ HasLocals =>
                    /\ result.locals.lat = cast_or_default(call.data.latitude, 35800).v
                    /\ result.locals.size_hectares = cast_or_default(call.data.size_hectares, 2000).v
                    /\ result.locals.tree_count = cast_or_default(call.data.tree_count, 400).v
                    /\ result.locals.ndvi_score = cast_or_default(call.data.ndvi_score, 500).v

\* the weather API answered with a forecast of one or two days and the
\* request's values are well-formed
ShortForecast ==
    /\ Fetched
    /\ Len(call.api.forecast) \in {1, 2}
    /\ cast_params(call.data).ok

\* C26: calculate_irrigation returns a successful recommendation for every
\* non-empty forecast of fewer than three days (one or two entries): it
\* aggregates ET0 and the expected rain over exactly the entries present and
\* builds the forecast summary without indexing a missing day.
C26_ShortForecastServed ==
    ShortForecast =>
        /\ result.success /\ result.status = 200
        /\ result.locals.forecast = call.api.forecast
        /\ result.locals.total_et0
               = SumEt0(et0_of_days(call.impl, call.api.forecast,
                                    result.locals.lat, call.today),
                        Len(call.api.forecast))
        /\ result.locals.expected_rain = expected_rain(call.api.forecast)
        /\ \A i \in 1..Len(call.api.forecast) :
               result.forecast_summary[i] = call.api.forecast[i].weather

=============================================================================
